---- MODULE Spec2Model ----
(***************************************************************************)
(* Firestore webhook connector (functions/index.js).                       *)
(*                                                                         *)
(* Three specifications share the variables below:                         *)
(*   SpecValidator   applies isValidWebhookUrl to URL strings;             *)
(*   SpecNormalizer  applies transformFirestoreEvent to raw events;        *)
(*   Spec            runs the three trigger adapters end to end.           *)
(*                                                                         *)
(* JavaScript strings are sequences of one-character strings, so that      *)
(* parsing, splitting and suffix tests are computed, not assumed.          *)
(***************************************************************************)
EXTENDS Integers, Sequences, FiniteSets, TLC

\* posts one invocation may issue before the model stops counting
MaxPosts == 3

VARIABLES
    vCase,      \* SpecValidator: the components the URL under test is built from
    vUrl,       \* SpecValidator: the URL string handed to isValidWebhookUrl
    vCalled,    \* SpecValidator: isValidWebhookUrl has been applied to vUrl
    vResult,    \* SpecValidator: the boolean it returned
    vLog,       \* SpecValidator: observations it recorded in that call
    nType,      \* SpecNormalizer: the eventType argument
    nEvent,     \* SpecNormalizer: the raw event argument
    nCalled,    \* SpecNormalizer: transformFirestoreEvent has been applied to them
    nEnvelope,  \* SpecNormalizer: the envelope it returned
    nLog,       \* SpecNormalizer: observations it recorded in that call
    env,        \* Spec: process.env, the configuration the module is loaded with
    kind,       \* Spec: which adapter the event is for
    trigEvent,  \* Spec: the raw event handed to the adapter
    pc,         \* Spec: "start", "idle", "triggered", "awaiting" (the post), "done"
    transformed, \* Spec: the envelope transformFirestoreEvent returned
    log,        \* Spec: the observations recorded in the invocation, in order
    posted,     \* Spec: the HTTP POST requests issued in the invocation
    normalized, \* Spec: calls of transformFirestoreEvent in the invocation
    dispatched, \* Spec: calls of sendWebhook in the invocation
    net,        \* Spec: what the network did with the request
    returned    \* Spec: "pending", or what the handler's promise settled with

vvars == <<vCase, vUrl, vCalled, vResult, vLog>>
nvars == <<nType, nEvent, nCalled, nEnvelope, nLog>>
pvars == <<env, kind, trigEvent, pc, transformed, log, posted, normalized,
           dispatched, net, returned>>

(***************************************************************************)
(* Strings                                                                 *)
(***************************************************************************)
LowerLetters == <<"a", "b", "c", "d", "e", "f", "g", "h", "i", "j", "k", "l", "m",
                  "n", "o", "p", "q", "r", "s", "t", "u", "v", "w", "x", "y", "z">>
UpperLetters == <<"A", "B", "C", "D", "E", "F", "G", "H", "I", "J", "K", "L", "M",
                  "N", "O", "P", "Q", "R", "S", "T", "U", "V", "W", "X", "Y", "Z">>
DigitChars == <<"0", "1", "2", "3", "4", "5", "6", "7", "8", "9">>

Range(s) == {s[i] : i \in 1..Len(s)}
Alpha == Range(LowerLetters) \cup Range(UpperLetters)
Digit == Range(DigitChars)

Take(s, n) == SubSeq(s, 1, n)
Drop(s, n) == SubSeq(s, n + 1, Len(s))

\* index of the first character of s that is in set, 0 when there is none
IndexIn(s, set) ==
    IF \E i \in 1..Len(s) : s[i] \in set
    THEN CHOOSE i \in 1..Len(s) : s[i] \in set /\ \A j \in 1..(i - 1) : s[j] \notin set
    ELSE 0

\* index of the last character of s that is in set, 0 when there is none
LastIndexIn(s, set) ==
    IF \E i \in 1..Len(s) : s[i] \in set
    THEN CHOOSE i \in 1..Len(s) : s[i] \in set /\ \A j \in (i + 1)..Len(s) : s[j] \notin set
    ELSE 0

\* String.prototype.endsWith
EndsWith(s, suffix) ==
    /\ Len(suffix) <= Len(s)
    /\ SubSeq(s, Len(s) - Len(suffix) + 1, Len(s)) = suffix

ToLowerChar(c) ==
    IF c \in Range(UpperLetters)
    THEN LowerLetters[CHOOSE i \in 1..Len(UpperLetters) : UpperLetters[i] = c]
    ELSE c

ToLower(s) == [i \in 1..Len(s) |-> ToLowerChar(s[i])]

DigitValue(c) == (CHOOSE i \in 1..Len(DigitChars) : DigitChars[i] = c) - 1

\* String.prototype.split(sep) for a one-character separator
RECURSIVE Split(_, _)
Split(s, sep) ==
    LET i == IndexIn(s, {sep})
    IN  IF i = 0 THEN <<s>> ELSE <<Take(s, i - 1)>> \o Split(Drop(s, i), sep)

RECURSIVE DecimalValue(_)
DecimalValue(ds) ==
    IF ds = <<>> THEN 0
    ELSE 10 * DecimalValue(Take(ds, Len(ds) - 1)) + DigitValue(ds[Len(ds)])

(***************************************************************************)
(* new URL(url): the WHATWG parser, without a base URL, as far as          *)
(* .hostname depends on it.  ok = FALSE is the TypeError it throws.        *)
(* Not modelled: the file scheme, IPv4/IPv6 literals, percent-decoding     *)
(* and IDNA mapping beyond ASCII lower-casing, stripping of surrounding    *)
(* white space; the URL strings drawn below use none of them.              *)
(***************************************************************************)
SpecialSchemes == { <<"h", "t", "t", "p">>, <<"h", "t", "t", "p", "s">>,
                    <<"f", "t", "p">>, <<"w", "s">>, <<"w", "s", "s">> }

SchemeChars == Alpha \cup Digit \cup {"+", "-", "."}

ForbiddenHostChars ==
    {" ", "#", "/", "<", ">", "?", "@", "[", "\\", "]", "^", "|"}

\* the host[:port] part of an authority: hostname, or failure
ParseHostPort(hostport, special) ==
    LET colon == IndexIn(hostport, {":"})
        host  == IF colon = 0 THEN hostport ELSE Take(hostport, colon - 1)
        port  == IF colon = 0 THEN <<>> ELSE Drop(hostport, colon)
        portOk == /\ Range(port) \subseteq Digit
                  /\ DecimalValue(port) <= 65535
        hostOk == /\ Range(host) \cap ForbiddenHostChars = {}
                  /\ special => (host # <<>> /\ "%" \notin Range(host))
    IN  IF hostOk /\ portOk
        THEN [ok |-> TRUE, hostname |-> IF special THEN ToLower(host) ELSE host]
        ELSE [ok |-> FALSE, hostname |-> <<>>]

\* an authority up to the first path, query or fragment delimiter
ParseAuthority(rest, special) ==
    LET stop == IndexIn(rest, IF special THEN {"/", "?", "#", "\\"} ELSE {"/", "?", "#"})
        auth == IF stop = 0 THEN rest ELSE Take(rest, stop - 1)
        at   == LastIndexIn(auth, {"@"})
    IN  ParseHostPort(Drop(auth, at), special)

RECURSIVE SkipSlashes(_)
SkipSlashes(s) ==
    IF s # <<>> /\ s[1] \in {"/", "\\"} THEN SkipSlashes(Drop(s, 1)) ELSE s

ParseURL(url) ==
    LET colon  == IndexIn(url, {":"})
        scheme == ToLower(Take(url, colon - 1))
        rest   == Drop(url, colon)
        special == scheme \in SpecialSchemes
    IN  IF \/ colon <= 1
           \/ url[1] \notin Alpha
           \/ ~(Range(scheme) \subseteq SchemeChars)
        THEN [ok |-> FALSE, hostname |-> <<>>]
        ELSE IF special
        THEN ParseAuthority(SkipSlashes(rest), TRUE)
        ELSE IF Len(rest) >= 2 /\ rest[1] = "/" /\ rest[2] = "/"
        THEN ParseAuthority(Drop(rest, 2), FALSE)
        ELSE [ok |-> TRUE, hostname |-> <<>>]

(***************************************************************************)
(* isValidWebhookUrl                                                       *)
(***************************************************************************)
allowedDomains ==
    << <<"c", "o", "n", "n", "e", "c", "t", ".", "p", "a", "b", "b", "l", "y", ".", "c", "o", "m">>,
       <<"w", "e", "b", "h", "o", "o", "k", ".", "s", "i", "t", "e">> >>

\* the predicate of allowedDomains.some(...)
DomainMatches_NoDot(hostname, domain) ==
    hostname = domain \/ EndsWith(hostname, domain)

DomainMatches(hostname, domain) ==
    hostname = domain \/ EndsWith(hostname, <<".">> \o domain)

isValidWebhookUrl(url) ==
    IF url = <<>> THEN FALSE
    ELSE LET urlObj == ParseURL(url)
         IN  IF urlObj.ok
             THEN \E i \in 1..Len(allowedDomains) :
                      DomainMatches(urlObj.hostname, allowedDomains[i])
             ELSE FALSE

\* what isValidWebhookUrl records: the catch block's error observation
isValidWebhookUrlLog(url) ==
    IF url # <<>> /\ ~ParseURL(url).ok
    THEN << [level |-> "error", msg |-> "Invalid webhook URL format"] >>
    ELSE << >>

(***************************************************************************)
(* JavaScript values.  An object is the sequence of its own properties in  *)
(* insertion order, so that spreading, Object.keys and JSON.stringify see  *)
(* the order the engine sees.  A string is a sequence of characters; the   *)
(* text of an engine error message is kept whole, as one element.         *)
(***************************************************************************)
Undefined == [t |-> "undefined"]
Null == [t |-> "null"]
NaN == [t |-> "NaN"]
Bool(b) == [t |-> "boolean", b |-> b]
Num(n) == [t |-> "number", n |-> n]
Str(s) == [t |-> "string", s |-> s]
Arr(a) == [t |-> "array", a |-> a]
Obj(e) == [t |-> "object", e |-> e]
Prop(k, v) == [k |-> k, v |-> v]

\* ToBoolean, as !x and x || y use it
Truthy(v) ==
    CASE v.t = "boolean" -> v.b
      [] v.t = "number" -> v.n # 0
      [] v.t = "string" -> v.s # <<>>
      [] v.t \in {"undefined", "null", "NaN"} -> FALSE
      [] OTHER -> TRUE

\* typeof v === 'object'
TypeofObject(v) == v.t \in {"null", "array", "object"}

\* v is null or undefined: reading a property of it throws a TypeError
Nullish(v) == v.t \in {"undefined", "null"}

HasOwn(o, k) == o.t = "object" /\ \E i \in 1..Len(o.e) : o.e[i].k = k

\* o.k for a named (non-index) property k of a value that is not nullish
Get(o, k) ==
    IF HasOwn(o, k)
    THEN o.e[CHOOSE i \in 1..Len(o.e) : o.e[i].k = k].v
    ELSE Undefined

\* o[k] = v
Put(o, k, v) ==
    IF HasOwn(o, k)
    THEN Obj([i \in 1..Len(o.e) |-> IF o.e[i].k = k THEN Prop(k, v) ELSE o.e[i]])
    ELSE Obj(Append(o.e, Prop(k, v)))

\* Object.entries
Entries(o) == IF o.t = "object" THEN o.e ELSE <<>>

\* Object.keys
Keys(o) == [i \in 1..Len(Entries(o)) |-> Entries(o)[i].k]

\* { ...o, ...entries }
RECURSIVE PutAll(_, _)
PutAll(o, entries) ==
    IF entries = <<>> THEN o
    ELSE PutAll(Put(o, entries[1].k, entries[1].v), Tail(entries))

RECURSIVE LeadingDigits(_)
LeadingDigits(s) ==
    IF s # <<>> /\ s[1] \in Digit THEN <<s[1]>> \o LeadingDigits(Tail(s)) ELSE <<>>

\* parseInt(v): a number as it is, the leading signed decimal digits of a
\* string, NaN otherwise (radix prefixes and leading blanks are not drawn)
ParseInt(v) ==
    IF v.t = "number" THEN v
    ELSE IF v.t # "string" THEN NaN
    ELSE LET signed == v.s # <<>> /\ v.s[1] \in {"-", "+"}
             digits == LeadingDigits(IF signed THEN Tail(v.s) ELSE v.s)
         IN  IF digits = <<>> THEN NaN
             ELSE IF signed /\ v.s[1] = "-" THEN Num(0 - DecimalValue(digits))
             ELSE Num(DecimalValue(digits))

\* parseFloat(v) on the values drawn here, which have no fraction or exponent
ParseFloat(v) == ParseInt(v)

\* JSON.stringify(v) as a sequence of tokens; the empty sequence is the
\* undefined it returns for undefined
RECURSIVE Stringify(_)
RECURSIVE StringifyElements(_)
RECURSIVE StringifyProperties(_, _)
Stringify(v) ==
    CASE v.t = "undefined" -> <<>>
      [] v.t \in {"null", "NaN"} -> << [w |-> "null"] >>
      [] v.t = "boolean" -> << [w |-> IF v.b THEN "true" ELSE "false"] >>
      [] v.t = "number" -> << [n |-> v.n] >>
      [] v.t = "string" -> << [q |-> v.s] >>
      [] v.t = "array" -> << [p |-> "["] >> \o StringifyElements(v.a) \o << [p |-> "]"] >>
      [] v.t = "object" -> << [p |-> "{"] >> \o StringifyProperties(v.e, TRUE) \o << [p |-> "}"] >>

StringifyElements(a) ==
    IF a = <<>> THEN <<>>
    ELSE (IF a[1].t = "undefined" THEN << [w |-> "null"] >> ELSE Stringify(a[1]))
         \o (IF Len(a) > 1 THEN << [p |-> ","] >> ELSE <<>>)
         \o StringifyElements(Tail(a))

\* properties whose value is undefined are left out
StringifyProperties(e, first) ==
    IF e = <<>> THEN <<>>
    ELSE IF e[1].v.t = "undefined" THEN StringifyProperties(Tail(e), first)
    ELSE (IF first THEN <<>> ELSE << [p |-> ","] >>)
         \o << [key |-> e[1].k], [p |-> ":"] >> \o Stringify(e[1].v)
         \o StringifyProperties(Tail(e), FALSE)

(***************************************************************************)
(* transformFirestoreEvent                                                 *)
(***************************************************************************)
DOCUMENT_CREATED == Str(<<"d", "o", "c", "u", "m", "e", "n", "t", "_", "c", "r", "e", "a", "t", "e", "d">>)
DOCUMENT_UPDATED == Str(<<"d", "o", "c", "u", "m", "e", "n", "t", "_", "u", "p", "d", "a", "t", "e", "d">>)
DOCUMENT_DELETED == Str(<<"d", "o", "c", "u", "m", "e", "n", "t", "_", "d", "e", "l", "e", "t", "e", "d">>)
EventTypes == {DOCUMENT_CREATED, DOCUMENT_UPDATED, DOCUMENT_DELETED}

Unknown == <<"u", "n", "k", "n", "o", "w", "n">>

\* new Date().toISOString(): the clock's reading at the call
Timestamp == Str(<<"now">>)

\* a step that completed with value v, and one that threw an error
Ok(v) == [ok |-> TRUE, v |-> v]
Threw(message) == [ok |-> FALSE, v |-> Str(<<message>>)]

RECURSIVE Join(_, _)
Join(parts, sep) ==
    IF Len(parts) = 0 THEN <<>>
    ELSE IF Len(parts) = 1 THEN parts[1]
    ELSE parts[1] \o <<sep>> \o Join(Tail(parts), sep)

\* documentPath.replace(/^projects\/[^\/]+\/databases\/[^\/]+\/documents\//, '')
CleanPath(documentPath) ==
    LET parts == Split(documentPath, "/")
    IN  IF /\ Len(parts) >= 6
           /\ parts[1] = <<"p", "r", "o", "j", "e", "c", "t", "s">>
           /\ parts[2] # <<>>
           /\ parts[3] = <<"d", "a", "t", "a", "b", "a", "s", "e", "s">>
           /\ parts[4] # <<>>
           /\ parts[5] = <<"d", "o", "c", "u", "m", "e", "n", "t", "s">>
        THEN Join(SubSeq(parts, 6, Len(parts)), "/")
        ELSE documentPath

\* pathParts[i] || "unknown"
PartOrUnknown(pathParts, i) ==
    IF i >= 1 /\ pathParts[i] # <<>> THEN pathParts[i] ELSE Unknown

\* one iteration of the decoding loop: the plain value of a field
DecodeField(value) ==
    IF ~(Truthy(value) /\ TypeofObject(value)) THEN Ok(value)
    ELSE IF Get(value, "stringValue") # Undefined THEN Ok(Get(value, "stringValue"))
    ELSE IF Get(value, "integerValue") # Undefined THEN Ok(ParseInt(Get(value, "integerValue")))
    ELSE IF Get(value, "doubleValue") # Undefined THEN Ok(ParseFloat(Get(value, "doubleValue")))
    ELSE IF Get(value, "booleanValue") # Undefined THEN Ok(Get(value, "booleanValue"))
    ELSE IF Get(value, "timestampValue") # Undefined THEN Ok(Get(value, "timestampValue"))
    ELSE IF Get(value, "nullValue") # Undefined THEN Ok(Null)
    ELSE IF Get(value, "arrayValue") # Undefined
    THEN LET av == Get(value, "arrayValue")
         IN  IF Nullish(av) THEN Threw("Cannot read properties of null (reading 'values')")
             ELSE Ok(IF Truthy(Get(av, "values")) THEN Get(av, "values") ELSE Arr(<<>>))
    ELSE IF Get(value, "mapValue") # Undefined
    THEN LET mv == Get(value, "mapValue")
         IN  IF Nullish(mv) THEN Threw("Cannot read properties of null (reading 'fields')")
             ELSE Ok(IF Truthy(Get(mv, "fields")) THEN Get(mv, "fields") ELSE Obj(<<>>))
    ELSE IF value.t = "array"
    THEN Ok(IF value.a # <<>> THEN value.a[1] ELSE value)
    ELSE Ok(IF value.e # <<>> THEN value.e[1].v ELSE value)

\* the decoding loop over Object.entries(fields); it stops at the first throw
RECURSIVE DecodeInto(_, _)
DecodeInto(result, entries) ==
    IF entries = <<>> THEN Ok(result)
    ELSE LET d == DecodeField(entries[1].v)
         IN  IF d.ok THEN DecodeInto(Put(result, entries[1].k, d.v), Tail(entries))
             ELSE d

\* data is undefined, null or an object here
parseDocumentData(data, docId) ==
    IF ~Truthy(data) THEN Ok(Obj(<< Prop("id", docId) >>))
    ELSE IF TypeofObject(data) /\ ~Truthy(Get(data, "_fieldsProto"))
    THEN Ok(PutAll(Obj(<< Prop("id", docId) >>), Entries(data)))
    ELSE LET fields == IF Truthy(Get(data, "_fieldsProto")) THEN Get(data, "_fieldsProto")
                       ELSE IF Truthy(Get(data, "fields")) THEN Get(data, "fields")
                       ELSE data
         IN  DecodeInto(Obj(<< Prop("id", docId) >>), Entries(fields))

\* new Set([...Object.keys(beforeData), ...Object.keys(afterData)])
AllKeys(beforeData, afterData) ==
    LET New(k) == ~HasOwn(beforeData, k)
    IN  Keys(beforeData) \o SelectSeq(Keys(afterData), New)

\* JSON.stringify(beforeValue) !== JSON.stringify(afterValue)
ValuesDiffer(beforeValue, afterValue) ==
    Stringify(beforeValue) # Stringify(afterValue)

\* the value stored under a changed key
ChangeEntry_AfterOnly(beforeValue, afterValue) == afterValue

ChangeEntry(beforeValue, afterValue) ==
    Obj(<< Prop("before", beforeValue), Prop("after", afterValue) >>)

\* the loop that fills changes
RECURSIVE CalculateChanges(_, _, _, _)
CalculateChanges(keys, beforeData, afterData, changes) ==
    IF keys = <<>> THEN changes
    ELSE LET key == Head(keys)
             beforeValue == Get(beforeData, key)
             afterValue == Get(afterData, key)
         IN  CalculateChanges(Tail(keys), beforeData, afterData,
                 IF key # "id" /\ ValuesDiffer(beforeValue, afterValue)
                 THEN Put(changes, key, ChangeEntry(beforeValue, afterValue))
                 ELSE changes)

\* eventType === "document_updated"
IsUpdate_NotCreated(eventType) == eventType # DOCUMENT_CREATED

IsUpdate(eventType) == eventType = DOCUMENT_UPDATED

\* the envelope returned by the catch block
DegradedEnvelope(eventType, message) ==
    Obj(<< Prop("eventType", eventType),
           Prop("error", Str(<<"Failed to transform event data">>)),
           Prop("errorMessage", message),
           Prop("timestamp", Timestamp) >>)

\* the properties every envelope of the try block starts with
EnvelopeHead(eventType, documentPath, pathParts) ==
    << Prop("eventType", eventType),
       Prop("documentPath", Str(CleanPath(documentPath))),
       Prop("documentId", Str(PartOrUnknown(pathParts, Len(pathParts)))),
       Prop("collectionId", Str(PartOrUnknown(pathParts, Len(pathParts) - 1))),
       Prop("timestamp", Timestamp) >>

\* the document_updated branch, given the two parsed records
TransformUpdate(head, beforeData, afterData) ==
    IF ~beforeData.ok THEN beforeData
    ELSE IF ~afterData.ok THEN afterData
    ELSE Ok(Obj(head \o
           << Prop("before", beforeData.v),
              Prop("after", afterData.v),
              Prop("changes",
                   CalculateChanges(AllKeys(beforeData.v, afterData.v),
                                    beforeData.v, afterData.v, Obj(<<>>))) >>))

\* documentData of the create and delete branch
DocumentData(eventType, event, documentId) ==
    IF eventType = DOCUMENT_CREATED /\ Truthy(Get(event, "value"))
    THEN parseDocumentData(Get(event, "value"), documentId)
    ELSE IF eventType = DOCUMENT_DELETED /\ Truthy(Get(event, "oldValue"))
    THEN parseDocumentData(Get(event, "oldValue"), documentId)
    ELSE Ok(Obj(<<>>))

\* the create and delete branch, given documentData
TransformData(head, documentData) ==
    IF ~documentData.ok THEN documentData
    ELSE Ok(Obj(head \o << Prop("data", documentData.v) >>))

\* the try block once documentId is known
TransformBranches(eventType, event, head, documentId) ==
    IF IsUpdate(eventType)
    THEN TransformUpdate(head,
                         parseDocumentData(Get(event, "oldValue"), documentId),
                         parseDocumentData(Get(event, "value"), documentId))
    ELSE TransformData(head, DocumentData(eventType, event, documentId))

\* the try block once documentPath is split
TransformParts(eventType, event, documentPath, pathParts) ==
    TransformBranches(eventType, event,
                      EnvelopeHead(eventType, documentPath, pathParts),
                      Str(PartOrUnknown(pathParts, Len(pathParts))))

\* the try block once event.document || "" is read
TransformDocument(eventType, event, documentPath) ==
    IF documentPath.t # "string" THEN Threw("documentPath.split is not a function")
    ELSE TransformParts(eventType, event, documentPath.s, Split(documentPath.s, "/"))

\* the try block: Ok(envelope), or the error it threw
TransformTry(eventType, event) ==
    IF Nullish(event)
    THEN Threw("Cannot read properties of undefined (reading 'document')")
    ELSE TransformDocument(eventType, event,
                           IF Truthy(Get(event, "document")) THEN Get(event, "document")
                           ELSE Str(<<>>))

\* the function's return value, given how the try block ended
TransformReturn(eventType, tried) ==
    IF tried.ok THEN tried.v ELSE DegradedEnvelope(eventType, tried.v)

\* what the function records, given how the try block ended: the catch
\* block's error observation
TransformLog(tried) ==
    IF tried.ok THEN <<>>
    ELSE << [level |-> "error", msg |-> "Error transforming Firestore event"] >>

\* the envelope transformFirestoreEvent returns
transformFirestoreEvent(eventType, event) ==
    TransformReturn(eventType, TransformTry(eventType, event))

(***************************************************************************)
(* Raw events drawn for the normalizer                                     *)
(***************************************************************************)
S_open == Str(<<"o", "p", "e", "n">>)
S_closed == Str(<<"c", "l", "o", "s", "e", "d">>)
S_year == Str(<<"2", "0", "2", "4">>)
S_path == Str(<<"o", "r", "d", "e", "r", "s", "/", "4", "2">>)
S_resource == Str(<<"p", "r", "o", "j", "e", "c", "t", "s", "/", "p", "/", "d", "a", "t", "a", "b", "a", "s", "e", "s", "/", "d", "/", "d", "o", "c", "u", "m", "e", "n", "t", "s", "/", "o", "r", "d", "e", "r", "s", "/", "4", "2">>)

F_open == Obj(<< Prop("stringValue", S_open) >>)
F_closed == Obj(<< Prop("stringValue", S_closed) >>)
F_ten == Obj(<< Prop("integerValue", Str(<<"1", "0">>)) >>)
F_notInt == Obj(<< Prop("integerValue", Str(<<"a", "b", "c">>)) >>)
F_double == Obj(<< Prop("doubleValue", Num(2)) >>)
F_true == Obj(<< Prop("booleanValue", Bool(TRUE)) >>)
F_time == Obj(<< Prop("timestampValue", S_year) >>)
F_null == Obj(<< Prop("nullValue", Null) >>)
F_array == Obj(<< Prop("arrayValue", Obj(<< Prop("values", Arr(<< F_open, F_ten >>)) >>)) >>)
F_arrayNoBody == Obj(<< Prop("arrayValue", Obj(<<>>)) >>)
F_arrayNull == Obj(<< Prop("arrayValue", Null) >>)
F_map == Obj(<< Prop("mapValue", Obj(<< Prop("fields", Obj(<< Prop("a", F_ten) >>)) >>)) >>)
F_mapNoBody == Obj(<< Prop("mapValue", Obj(<<>>)) >>)
F_geo == Obj(<< Prop("geoPointValue", Obj(<< Prop("latitude", Num(1)) >>)) >>)
F_empty == Obj(<<>>)

Internal(fields) == Obj(<< Prop("_fieldsProto", Obj(fields)) >>)

Snapshots ==
    { Undefined,
      Null,
      \* plain objects
      Obj(<< Prop("status", S_open) >>),
      Obj(<< Prop("status", S_closed) >>),
      Obj(<< Prop("status", S_open),
             Prop("meta", Obj(<< Prop("a", Num(1)), Prop("b", Num(2)) >>)) >>),
      Obj(<< Prop("status", S_open),
             Prop("meta", Obj(<< Prop("b", Num(2)), Prop("a", Num(1)) >>)) >>),
      \* the wire format: name, fields, updateTime
      Obj(<< Prop("name", S_resource),
             Prop("fields", Obj(<< Prop("amount", F_ten) >>)),
             Prop("updateTime", S_year) >>),
      \* the client library's internal format
      Internal(<< Prop("status", F_open), Prop("amount", F_ten) >>),
      Internal(<< Prop("status", F_closed), Prop("amount", F_ten) >>),
      Internal(<< Prop("tags", F_array), Prop("meta", F_map) >>),
      Internal(<< Prop("tags", F_arrayNull) >>),
      Internal(<< Prop("n", F_null) >>),
      Internal(<< Prop("n", F_notInt) >>),
      Internal(<< Prop("id", F_open), Prop("flag", F_true) >>),
      Internal(<< Prop("geo", F_geo), Prop("e", F_empty), Prop("d", F_double),
                  Prop("t", F_time), Prop("a", F_arrayNoBody), Prop("m", F_mapNoBody) >>) }

\* event.document: absent, a relative path, a resource name, empty, not a string
Documents == { Undefined, S_path, S_resource, Str(<<>>), Num(42) }

RawEvent(document, value, oldValue) ==
    Obj((IF document = Undefined THEN <<>> ELSE << Prop("document", document) >>)
        \o (IF value = Undefined THEN <<>> ELSE << Prop("value", value) >>)
        \o (IF oldValue = Undefined THEN <<>> ELSE << Prop("oldValue", oldValue) >>))

\* the event objects drawn: a trigger always hands over an object
RawEvents ==
    { RawEvent(d, v, o) : d \in Documents, v \in Snapshots, o \in Snapshots }

NormalizerIdle ==
    /\ nType = DOCUMENT_CREATED
    /\ nEvent = Undefined
    /\ nCalled = FALSE
    /\ nEnvelope = Undefined
    /\ nLog = <<>>

InitNormalizer ==
    /\ nType \in EventTypes
    /\ nEvent \in RawEvents
    /\ nCalled = FALSE
    /\ nEnvelope = Undefined
    /\ nLog = <<>>

\* one call transformFirestoreEvent(nType, nEvent)
NormalizeEnds(tried) ==
    /\ nCalled' = TRUE
    /\ nEnvelope' = TransformReturn(nType, tried)
    /\ nLog' = TransformLog(tried)
    /\ UNCHANGED <<nType, nEvent>>

Normalize ==
    /\ ~nCalled
    /\ NormalizeEnds(TransformTry(nType, nEvent))
    /\ UNCHANGED <<vvars, pvars>>

NextNormalizer == Normalize

(***************************************************************************)
(* SpecValidator: isValidWebhookUrl applied to URL strings assembled from  *)
(* components  scheme ":" "//" user "@" host ":" port path.                *)
(***************************************************************************)
SchemeParts == { <<>>, <<"h", "t", "t", "p", "s">>, <<"H", "T", "T", "P", "S">>,
                 <<"f", "t", "p">>, <<"g", "i", "t">>, <<"1", "h", "t", "t", "p", "s">> }

UserParts == { <<>>, <<"w", "e", "b", "h", "o", "o", "k", ".", "s", "i", "t", "e">> }

HostParts ==
    { <<>>,
      <<"c", "o", "n", "n", "e", "c", "t", ".", "p", "a", "b", "b", "l", "y", ".", "c", "o", "m">>,
      <<"w", "e", "b", "h", "o", "o", "k", ".", "s", "i", "t", "e">>,
      <<"s", "u", "b", ".", "c", "o", "n", "n", "e", "c", "t", ".", "p", "a", "b", "b", "l", "y", ".", "c", "o", "m">>,
      <<"e", "v", "i", "l", ".", "c", "o", "m">>,
      <<"e", "v", "i", "l", "w", "e", "b", "h", "o", "o", "k", ".", "s", "i", "t", "e">>,
      <<"w", "e", "b", "h", "o", "o", "k", ".", "s", "i", "t", "e", ".", "e", "v", "i", "l", ".", "c", "o", "m">>,
      <<"W", "E", "B", "H", "O", "O", "K", ".", "S", "I", "T", "E">>,
      <<"w", "e", "b", "h", "o", "o", "k", ".", "s", "i", "t", "e", ".">>,
      <<"p", "a", "b", "b", "l", "y", ".", "c", "o", "m">>,
      <<"w", "e", "b", " ", "h", "o", "o", "k", ".", "s", "i", "t", "e">> }

PortParts == { <<>>, <<"8", "0", "8", "0">>, <<"9", "9", "9", "9", "9">>, <<"8", "x">> }

PathParts == { <<>>, <<"/", "x">>,
               <<"/", ".", "w", "e", "b", "h", "o", "o", "k", ".", "s", "i", "t", "e">>,
               <<"?", "u", "=", "w", "e", "b", "h", "o", "o", "k", ".", "s", "i", "t", "e">> }

UrlCases ==
    [scheme : SchemeParts, slashes : BOOLEAN, user : UserParts,
     host : HostParts, port : PortParts, path : PathParts]

Render(c) ==
    (IF c.scheme = <<>> THEN <<>> ELSE c.scheme \o <<":">>)
    \o (IF c.slashes THEN <<"/", "/">> ELSE <<>>)
    \o (IF c.user = <<>> THEN <<>> ELSE c.user \o <<"@">>)
    \o c.host
    \o (IF c.port = <<>> THEN <<>> ELSE <<":">> \o c.port)
    \o c.path

NoCase == [scheme |-> <<>>, slashes |-> FALSE, user |-> <<>>,
           host |-> <<>>, port |-> <<>>, path |-> <<>>]

ValidatorIdle ==
    /\ vCase = NoCase
    /\ vUrl = <<>>
    /\ vCalled = FALSE
    /\ vResult = FALSE
    /\ vLog = <<>>

InitValidator ==
    /\ vCase \in UrlCases
    /\ vUrl = Render(vCase)
    /\ vCalled = FALSE
    /\ vResult = FALSE
    /\ vLog = <<>>

\* one call isValidWebhookUrl(vUrl)
ValidateUrl ==
    /\ ~vCalled
    /\ vCalled' = TRUE
    /\ vResult' = isValidWebhookUrl(vUrl)
    /\ vLog' = isValidWebhookUrlLog(vUrl)
    /\ UNCHANGED <<vCase, vUrl>>
    /\ UNCHANGED <<nvars, pvars>>

(***************************************************************************)
(* Configuration read at load time                                         *)
(***************************************************************************)
Kinds == {"create", "update", "delete"}

\* (process.env.ENABLE_x_WEBHOOK || "true").toLowerCase() === "true";
\* raw is the variable's text, empty when it is unset
EnableFlag(raw) ==
    ToLower(IF raw = <<>> THEN <<"t", "r", "u", "e">> ELSE raw) = <<"t", "r", "u", "e">>

ENABLE_CREATE_WEBHOOK == EnableFlag(env.ENABLE_CREATE_WEBHOOK)
ENABLE_DELETE_WEBHOOK == EnableFlag(env.ENABLE_DELETE_WEBHOOK)
ENABLE_UPDATE_WEBHOOK == EnableFlag(env.ENABLE_UPDATE_WEBHOOK)

\* process.env.WEBHOOK_URL || ""
WEBHOOK_URL == env.WEBHOOK_URL

\* the flag the handler of kind k tests
Enabled_SameFlag(k) == ENABLE_CREATE_WEBHOOK

Enabled(k) ==
    CASE k = "create" -> ENABLE_CREATE_WEBHOOK
      [] k = "update" -> ENABLE_UPDATE_WEBHOOK
      [] k = "delete" -> ENABLE_DELETE_WEBHOOK

EventTypeOf(k) ==
    CASE k = "create" -> DOCUMENT_CREATED
      [] k = "update" -> DOCUMENT_UPDATED
      [] k = "delete" -> DOCUMENT_DELETED

Observation(level, msg) == [level |-> level, msg |-> msg]

(***************************************************************************)
(* sendWebhook                                                             *)
(***************************************************************************)
\* what the network does with one request
NetworkOutcomes ==
    [type : {"status"}, status : {200, 204, 304, 404, 500}]
    \cup { [type |-> "timeout", status |-> 0],
           [type |-> "unreachable", status |-> 0],
           [type |-> "setup", status |-> 0] }

\* axios.post: it resolves on a 2xx status and rejects otherwise; the error
\* carries the response when one arrived, the request when one was sent
AxiosPost(outcome) ==
    IF outcome.type = "status" /\ outcome.status >= 200 /\ outcome.status < 300
    THEN [resolved |-> TRUE, response |-> TRUE, request |-> TRUE, status |-> outcome.status]
    ELSE [resolved |-> FALSE,
          response |-> outcome.type = "status",
          request |-> outcome.type \in {"status", "timeout", "unreachable"},
          status |-> outcome.status]

\* the observations recorded once the request has settled
SendWebhookSettled_RequestFirst(r) ==
    IF r.resolved
    THEN << Observation("info", "Webhook sent successfully"),
            Observation("debug", "Response data") >>
    ELSE IF r.request
    THEN << Observation("error", "No response received from webhook server") >>
    ELSE IF r.response
    THEN << Observation("error", "Webhook server responded with an error") >>
    ELSE << Observation("error", "Error setting up webhook request") >>

SendWebhookSettled(r) ==
    IF r.resolved
    THEN << Observation("info", "Webhook sent successfully"),
            Observation("debug", "Response data") >>
    ELSE IF r.response
    THEN << Observation("error", "Webhook server responded with an error") >>
    ELSE IF r.request
    THEN << Observation("error", "No response received from webhook server") >>
    ELSE << Observation("error", "Error setting up webhook request") >>

\* whether sendWebhook's catch block lets the rejection out: it returns
SendWebhookRethrows_Throw(r) == ~r.resolved

SendWebhookRethrows(r) == FALSE

\* whether sendWebhook posts again after the request has settled: never
SendWebhookRetries_OnFailure(r) == ~r.resolved

SendWebhookRetries(r) == FALSE

\* the guards before the request: "post", or the observations of a skip
SendWebhookSkips_NoValidation(url) ==
    IF url = <<>>
    THEN << Observation("warn", "No webhook URL configured") >>
    ELSE <<>>

SendWebhookSkips(url) ==
    IF url = <<>>
    THEN << Observation("warn", "No webhook URL configured") >>
    ELSE IF ~isValidWebhookUrl(url)
    THEN isValidWebhookUrlLog(url) \o << Observation("error", "Invalid webhook URL") >>
    ELSE <<>>

(***************************************************************************)
(* The trigger adapters                                                    *)
(***************************************************************************)
\* what the handler resolves with: null on the disabled path and after the
\* try/catch
AdapterReturn_BareReturn(enabled) == IF enabled THEN "null" ELSE "undefined"

AdapterReturn(enabled) == "null"

\* the end of the handler's try/catch
AdapterCompletes_Silent(threw) ==
    IF threw
    THEN << Observation("error", "Error in webhook handler") >>
    ELSE <<>>

AdapterCompletes(threw) ==
    IF threw
    THEN << Observation("error", "Error in webhook handler") >>
    ELSE << Observation("info", "webhook processed successfully") >>

\* the request body: the eventPayload sendWebhook was called with
AxiosPostBody_OmitsDegraded(eventPayload) ==
    IF HasOwn(eventPayload, "error") THEN Undefined ELSE eventPayload

AxiosPostBody(eventPayload) == eventPayload

\* the handler of kind k from transformFirestoreEvent on, given how its try
\* block ended and what sendWebhook's guards recorded: to the await of the
\* post, or to the handler's end when the post is skipped
AdapterDispatches(k, tried, skips) ==
    /\ transformed' = TransformReturn(EventTypeOf(k), tried)
    /\ normalized' = normalized + 1
    /\ dispatched' = dispatched + 1
    /\ IF skips # <<>>
       THEN /\ log' = << Observation("info", "function triggered") >>
                      \o TransformLog(tried) \o skips \o AdapterCompletes(FALSE)
            /\ returned' = AdapterReturn(TRUE)
            /\ pc' = "done"
            /\ UNCHANGED posted
       ELSE /\ log' = << Observation("info", "function triggered") >>
                      \o TransformLog(tried)
                      \o << Observation("info", "Attempting to send webhook") >>
            /\ posted' = Append(posted, [url |-> WEBHOOK_URL,
                                         body |-> AxiosPostBody(
                                                    TransformReturn(EventTypeOf(k), tried))])
            /\ pc' = "awaiting"
            /\ UNCHANGED returned

\* the handler of kind k, from its invocation to its first await or its end
Adapter(k) ==
    /\ pc = "triggered"
    /\ kind = k
    /\ IF ~Enabled(k)
       THEN /\ log' = << Observation("info", "function triggered"),
                         Observation("info", "webhook is disabled") >>
            /\ returned' = AdapterReturn(FALSE)
            /\ pc' = "done"
            /\ UNCHANGED <<transformed, normalized, dispatched, posted>>
       ELSE AdapterDispatches(k, TransformTry(EventTypeOf(k), trigEvent),
                              SendWebhookSkips(WEBHOOK_URL))
    /\ UNCHANGED <<env, kind, trigEvent, net>>
    /\ UNCHANGED <<vvars, nvars>>

onCreateWebhook == Adapter("create")
onUpdateWebhook == Adapter("update")
onDeleteWebhook == Adapter("delete")

\* the request settles and the handler runs from its await to its end
AxiosSettles ==
    /\ pc = "awaiting"
    /\ \E o \in NetworkOutcomes :
         LET r == AxiosPost(o)
         IN  /\ net' = o
             /\ IF SendWebhookRetries(r) /\ Len(posted) < MaxPosts
                THEN /\ posted' = Append(posted, posted[1])
                     /\ log' = log \o SendWebhookSettled(r)
                     /\ UNCHANGED <<pc, returned>>
                ELSE /\ log' = log \o SendWebhookSettled(r)
                                   \o AdapterCompletes(SendWebhookRethrows(r))
                     /\ returned' = AdapterReturn(TRUE)
                     /\ pc' = "done"
                     /\ UNCHANGED posted
    /\ UNCHANGED <<env, kind, trigEvent, transformed, normalized, dispatched>>
    /\ UNCHANGED <<vvars, nvars>>

(***************************************************************************)
(* Spec: one invocation of one adapter under one configuration.  The      *)
(* handlers share no state, so concurrent invocations are independent.     *)
(***************************************************************************)
FlagTexts == { <<>>, <<"T", "R", "U", "E">>, <<"f", "a", "l", "s", "e">> }

ConfiguredUrls ==
    { <<>>,
      Render([NoCase EXCEPT !.scheme = <<"h", "t", "t", "p", "s">>, !.slashes = TRUE,
                            !.host = <<"c", "o", "n", "n", "e", "c", "t", ".", "p", "a", "b", "b", "l", "y", ".", "c", "o", "m">>, !.path = <<"/", "x">>]),
      Render([NoCase EXCEPT !.scheme = <<"f", "t", "p">>, !.slashes = TRUE,
                            !.host = <<"s", "u", "b", ".", "c", "o", "n", "n", "e", "c", "t", ".", "p", "a", "b", "b", "l", "y", ".", "c", "o", "m">>]),
      Render([NoCase EXCEPT !.scheme = <<"h", "t", "t", "p", "s">>, !.slashes = TRUE,
                            !.host = <<"e", "v", "i", "l", "w", "e", "b", "h", "o", "o", "k", ".", "s", "i", "t", "e">>]),
      Render([NoCase EXCEPT !.host = <<"w", "e", "b", "h", "o", "o", "k", ".", "s", "i", "t", "e">>]) }

Environments ==
    [WEBHOOK_URL : ConfiguredUrls,
     ENABLE_CREATE_WEBHOOK : FlagTexts,
     ENABLE_UPDATE_WEBHOOK : FlagTexts,
     ENABLE_DELETE_WEBHOOK : FlagTexts]

\* the events the trigger runtime hands to the handlers
TriggerEvents ==
    { RawEvent(d, v, o) :
        d \in {S_path, Num(42)},
        v \in {Undefined, Obj(<< Prop("status", S_closed) >>),
               Internal(<< Prop("tags", F_arrayNull) >>)},
        o \in {Undefined, Obj(<< Prop("status", S_open) >>)} }

NoOutcome == [type |-> "none", status |-> 0]

PipelineIdle ==
    /\ env = [WEBHOOK_URL |-> <<>>, ENABLE_CREATE_WEBHOOK |-> <<>>,
              ENABLE_UPDATE_WEBHOOK |-> <<>>, ENABLE_DELETE_WEBHOOK |-> <<>>]
    /\ kind = "create"
    /\ trigEvent = Obj(<<>>)
    /\ pc = "start"
    /\ transformed = Undefined
    /\ log = <<>>
    /\ posted = <<>>
    /\ normalized = 0
    /\ dispatched = 0
    /\ net = NoOutcome
    /\ returned = "pending"

\* the module is loaded: the configuration is read from the environment
LoadModule ==
    /\ pc = "start"
    /\ env' \in Environments
    /\ pc' = "idle"
    /\ UNCHANGED <<kind, trigEvent, transformed, log, posted, normalized, dispatched,
                   net, returned>>
    /\ UNCHANGED <<vvars, nvars>>

\* the trigger runtime invokes the handler of one kind with one event
Invoke ==
    /\ pc = "idle"
    /\ kind' \in Kinds
    /\ trigEvent' \in TriggerEvents
    /\ pc' = "triggered"
    /\ UNCHANGED <<env, transformed, log, posted, normalized, dispatched, net, returned>>
    /\ UNCHANGED <<vvars, nvars>>

vars == <<vvars, nvars, pvars>>

NextValidator == ValidateUrl

InitOfValidator == InitValidator /\ NormalizerIdle /\ PipelineIdle

SpecValidator == InitOfValidator /\ [][NextValidator]_vars

InitOfNormalizer == ValidatorIdle /\ PipelineIdle /\ InitNormalizer

SpecNormalizer == InitOfNormalizer /\ [][NextNormalizer]_vars

Init == ValidatorIdle /\ NormalizerIdle /\ PipelineIdle

Next ==
    \/ LoadModule
    \/ Invoke
    \/ onCreateWebhook
    \/ onUpdateWebhook
    \/ onDeleteWebhook
    \/ AxiosSettles

\* the request's 15 s timeout settles every post
Fairness == WF_vars(AxiosSettles)

Spec == Init /\ [][Next]_vars /\ Fairness

(***************************************************************************)
(* C1 - C5: the adapters and the dispatcher                                *)
(***************************************************************************)
Count(observations, msg) ==
    Cardinality({i \in 1..Len(observations) : observations[i].msg = msg})

CountLevel(observations, level) ==
    Cardinality({i \in 1..Len(observations) : observations[i].level = level})

\* the text of the enable flag of the invocation's kind
FlagText ==
    CASE kind = "create" -> env.ENABLE_CREATE_WEBHOOK
      [] kind = "update" -> env.ENABLE_UPDATE_WEBHOOK
      [] kind = "delete" -> env.ENABLE_DELETE_WEBHOOK

FlagIsFalse == FlagText = <<"f", "a", "l", "s", "e">>

\* C1: whatever the event, the normalization and the delivery do, the
\* invocation of each of the three adapters is never rejected, has resolved
\* with null when the handler ends without awaiting the post, and resolves
\* with null eventually when it awaits it.
C1_AdapterAlwaysResolves ==
    /\ [](returned \in {"pending", "null"})
    /\ [](pc \in {"start", "idle", "triggered", "awaiting", "done"})
    /\ [](pc = "done" => returned = "null")
    /\ (pc = "awaiting" ~> (pc = "done" /\ returned = "null"))

\* an invocation resolved after a fault in the normalizer and a request that
\* could not be set up
C1_Witness ==
    /\ pc = "done"
    /\ returned = "null"
    /\ Count(log, "Error transforming Firestore event") = 1
    /\ net.type = "setup"

\* C2: with the enable flag of its kind false the invocation normalizes
\* nothing, calls no dispatcher, posts nothing and resolves with null,
\* whatever the flags of the other two kinds are.
C2_DisabledShortCircuit ==
    FlagIsFalse =>
        /\ pc # "awaiting"
        /\ normalized = 0
        /\ transformed = Undefined
        /\ dispatched = 0
        /\ posted = <<>>
        /\ pc = "done" => returned = "null"

\* a delete was skipped while create and update were enabled and the URL
\* was an allowed one
C2_Witness ==
    /\ pc = "done"
    /\ kind = "delete"
    /\ FlagIsFalse
    /\ env.ENABLE_CREATE_WEBHOOK = <<>>
    /\ env.ENABLE_UPDATE_WEBHOOK = <<"T", "R", "U", "E">>
    /\ isValidWebhookUrl(env.WEBHOOK_URL)
    /\ posted = <<>>

\* C3: a POST is issued only for a non-empty URL the validator accepts; with
\* an empty URL the dispatcher records one warning and with a rejected URL
\* its error observation, and in both cases nothing is posted.
C3_DispatcherGate ==
    /\ posted # <<>> => (env.WEBHOOK_URL # <<>> /\ isValidWebhookUrl(env.WEBHOOK_URL))
    /\ (dispatched = 1 /\ env.WEBHOOK_URL = <<>>) =>
          /\ pc = "done"
          /\ posted = <<>>
          /\ CountLevel(log, "warn") = 1
          /\ Count(log, "No webhook URL configured") = 1
          /\ CountLevel(log, "error") = Count(log, "Error transforming Firestore event")
    /\ (dispatched = 1 /\ env.WEBHOOK_URL # <<>> /\ ~isValidWebhookUrl(env.WEBHOOK_URL)) =>
          /\ pc = "done"
          /\ posted = <<>>
          /\ CountLevel(log, "warn") = 0
          /\ Count(log, "Invalid webhook URL") = 1

\* the dispatcher was called with a URL of a host that only ends like an
\* allowed domain, and skipped the post
C3_Witness ==
    /\ dispatched = 1
    /\ pc = "done"
    /\ env.WEBHOOK_URL # <<>>
    /\ ParseURL(env.WEBHOOK_URL).ok
    /\ ~isValidWebhookUrl(env.WEBHOOK_URL)
    /\ posted = <<>>
    /\ Count(log, "Invalid webhook URL") = 1

\* the event is not suppressed: its kind is enabled and the URL is usable
NonSuppressed ==
    /\ ~FlagIsFalse
    /\ env.WEBHOOK_URL # <<>>
    /\ isValidWebhookUrl(env.WEBHOOK_URL)

Failed(outcome) ==
    outcome.type \in {"timeout", "unreachable", "setup"}
    \/ (outcome.type = "status" /\ ~(outcome.status \in 200..299))

\* C4: an event leads to at most one call of the dispatcher and the
\* dispatcher to at most one POST; a failed delivery is not tried again; a
\* finished invocation has posted exactly once if the event was not
\* suppressed and not at all if it was.
C4_SinglePostNoRetry ==
    /\ normalized <= 1
    /\ dispatched <= 1
    /\ Len(posted) <= 1
    /\ pc = "awaiting" => Len(posted) = 1
    /\ pc = "done" => Len(posted) = (IF NonSuppressed THEN 1 ELSE 0)
    /\ (pc = "done" /\ Failed(net)) => Len(posted) = 1

\* a delivery that got a 500 ended with the one POST
C4_Witness ==
    /\ pc = "done"
    /\ net.type = "status" /\ net.status = 500
    /\ Len(posted) = 1

\* C5: when the allowed destination is unreachable or the request times out,
\* the dispatcher returns to the adapter without raising and has recorded the
\* no-response observation exactly once, and no other classification.
C5_NoResponseOnce ==
    (pc = "done" /\ net.type \in {"timeout", "unreachable"}) =>
        /\ Count(log, "No response received from webhook server") = 1
        /\ Count(log, "Webhook server responded with an error") = 0
        /\ Count(log, "Error setting up webhook request") = 0
        /\ Count(log, "Webhook sent successfully") = 0
        /\ Count(log, "Error in webhook handler") = 0
        /\ log[Len(log)] = Observation("info", "webhook processed successfully")
        /\ returned = "null"

\* a request to an allowed URL timed out and the invocation ended
C5_Witness ==
    /\ pc = "done"
    /\ net.type = "timeout"
    /\ isValidWebhookUrl(env.WEBHOOK_URL)
    /\ Count(log, "No response received from webhook server") = 1

(***************************************************************************)
(* C6                                                                      *)
(***************************************************************************)
\* the host's dot-separated labels end with the domain's labels
IsDomainOrSubdomain(hostname, domain) ==
    LET h == Split(hostname, ".")
        d == Split(domain, ".")
    IN  /\ Len(d) <= Len(h)
        /\ SubSeq(h, Len(h) - Len(d) + 1, Len(h)) = d

HostAllowed(hostname) ==
    \E i \in 1..Len(allowedDomains) : IsDomainOrSubdomain(hostname, allowedDomains[i])

\* a case whose every component is well formed: a scheme, "//", a host of
\* host characters, no port or a decimal port
WellFormedCase(c) ==
    /\ c.scheme # <<>> /\ c.scheme[1] \in Alpha
    /\ c.slashes
    /\ c.host # <<>> /\ " " \notin Range(c.host)
    /\ c.port \in { <<>>, <<"8", "0", "8", "0">> }

\* C6: isValidWebhookUrl(url) is true iff url parses and its host is an
\* allow-listed domain or a dot-separated subdomain of one; it is false, with
\* nothing thrown, for the empty string and for an unparsable URL; and for a
\* well-formed URL the verdict is that of its host component whatever the
\* scheme is (the host lower-cased under http, https and ftp).
C6_ValidatorAllowList ==
    vCalled =>
        /\ vResult = (ParseURL(vUrl).ok /\ HostAllowed(ParseURL(vUrl).hostname))
        /\ vUrl = <<>> => (vResult = FALSE /\ vLog = <<>>)
        /\ vCase.scheme = <<>> => vResult = FALSE
        /\ WellFormedCase(vCase) =>
              vResult = HostAllowed(IF ToLower(vCase.scheme) \in SpecialSchemes
                                    THEN ToLower(vCase.host) ELSE vCase.host)

\* an ftp URL of a proper subdomain of an allow-listed domain was accepted
C6_Witness ==
    /\ vCalled
    /\ vResult = TRUE
    /\ vCase.scheme = <<"f", "t", "p">>
    /\ vCase.slashes
    /\ vCase.host = <<"s", "u", "b", ".", "c", "o", "n", "n", "e", "c", "t", ".",
                      "p", "a", "b", "b", "l", "y", ".", "c", "o", "m">>

(***************************************************************************)
(* C7 - C10: the normalizer                                                *)
(***************************************************************************)
\* the catch block of transformFirestoreEvent ran in the call
NormalizerFaulted == nLog # <<>>

HasData == HasOwn(nEnvelope, "data")
HasAllOfDiff == \A k \in {"before", "after", "changes"} : HasOwn(nEnvelope, k)
HasAnyOfDiff == \E k \in {"before", "after", "changes"} : HasOwn(nEnvelope, k)

ExactlyOneMatchingEventType ==
    IF nType = DOCUMENT_UPDATED
    THEN HasAllOfDiff /\ ~HasData
    ELSE HasData /\ ~HasAnyOfDiff

\* C7 as stated: every envelope the normalizer returns, for every event kind
\* and every raw event, populates exactly one of {data} and {before, after,
\* changes}, the one matching eventType.
C7_Original ==
    nCalled => ExactlyOneMatchingEventType

\* C7 amended: every envelope returned without an internal fault populates
\* exactly one of {data} and {before, after, changes}, the one matching
\* eventType; the degraded envelope returned after a fault populates neither.
C7_ExactlyOneUnlessDegraded ==
    nCalled =>
        IF NormalizerFaulted
        THEN ~HasData /\ ~HasAnyOfDiff
        ELSE ExactlyOneMatchingEventType

\* an update was normalized without a fault and something had changed
C7_Witness ==
    /\ nCalled
    /\ ~NormalizerFaulted
    /\ nType = DOCUMENT_UPDATED
    /\ HasAllOfDiff
    /\ Get(nEnvelope, "changes") # Obj(<<>>)

\* the fields of a snapshot: the ones it carries in either format
SnapshotFields(snapshot) ==
    IF Truthy(Get(snapshot, "_fieldsProto")) THEN Get(snapshot, "_fieldsProto")
    ELSE Get(snapshot, "fields")

\* buildRecord: {id} for an absent snapshot, else id plus one decoded value
\* per entry of the snapshot's fields
BuildRecord(snapshot, id) ==
    IF Nullish(snapshot) THEN Obj(<< Prop("id", id) >>)
    ELSE DecodeInto(Obj(<< Prop("id", id) >>), Entries(SnapshotFields(snapshot))).v

\* C8 as stated: for document_created data = buildRecord(value), for
\* document_deleted data = buildRecord(oldValue).
C8_DataIsBuildRecord ==
    (nCalled /\ ~NormalizerFaulted /\ nType # DOCUMENT_UPDATED) =>
        Get(nEnvelope, "data") =
            BuildRecord(Get(nEvent, IF nType = DOCUMENT_CREATED THEN "value" ELSE "oldValue"),
                        Get(nEnvelope, "documentId"))

\* structural equality: objects as mappings whatever the order of their keys
RECURSIVE DeepEqual(_, _)
DeepEqual(a, b) ==
    IF a.t # b.t THEN FALSE
    ELSE IF a.t = "object"
    THEN /\ {a.e[i].k : i \in 1..Len(a.e)} = {b.e[i].k : i \in 1..Len(b.e)}
         /\ \A i \in 1..Len(a.e) : DeepEqual(a.e[i].v, Get(b, a.e[i].k))
    ELSE IF a.t = "array"
    THEN /\ Len(a.a) = Len(b.a)
         /\ \A i \in 1..Len(a.a) : DeepEqual(a.a[i], b.a[i])
    ELSE a = b

KeysOf(o) == {Entries(o)[i].k : i \in 1..Len(Entries(o))}

\* C9 as stated: for document_updated a key is in changes iff it occurs in
\* before or after, is not id, and before[key] is not deeply equal to
\* after[key].
C9_ChangesIffNotDeepEqual ==
    (nCalled /\ ~NormalizerFaulted /\ nType = DOCUMENT_UPDATED) =>
        LET before == Get(nEnvelope, "before")
            after == Get(nEnvelope, "after")
            changes == Get(nEnvelope, "changes")
        IN  \A key \in KeysOf(before) \cup KeysOf(after) \cup KeysOf(changes) :
                HasOwn(changes, key) <=>
                    /\ key \in KeysOf(before) \cup KeysOf(after)
                    /\ key # "id"
                    /\ ~DeepEqual(Get(before, key), Get(after, key))

\* C10 as stated: on an internal fault the normalizer returns an envelope
\* carrying eventType, documentPath "unknown", a timestamp, the error text
\* and the cause as errorMessage.
C10_DegradedEnvelope ==
    (nCalled /\ NormalizerFaulted) =>
        /\ Get(nEnvelope, "eventType") = nType
        /\ Get(nEnvelope, "documentPath") = Str(Unknown)
        /\ Get(nEnvelope, "timestamp") = Timestamp
        /\ Get(nEnvelope, "error") = Str(<<"Failed to transform event data">>)
        /\ Get(nEnvelope, "errorMessage").t = "string"

(***************************************************************************)
(* C11 - C16                                                               *)
(***************************************************************************)
\* the outcome observations of sendWebhook
OutcomeMessages ==
    { "Webhook sent successfully",
      "Webhook server responded with an error",
      "No response received from webhook server",
      "Error setting up webhook request" }

\* how many outcome observations the invocation has recorded
OutcomeCount ==
    Cardinality({i \in 1..Len(log) : log[i].msg \in OutcomeMessages})

Is2xx(outcome) == outcome.type = "status" /\ outcome.status \in 200..299

\* C11: an invocation that issued the POST has recorded, once the request
\* settled, exactly one outcome observation: success iff a 2xx response
\* arrived, remote-error iff a non-2xx response arrived, no-response when the
\* request was sent and nothing came back, setup-error when the request could
\* not be sent; before the request settles, and when nothing is posted, no
\* outcome is recorded.
C11_OneOutcomePerAttempt ==
    /\ (pc # "done" \/ posted = <<>>) => OutcomeCount = 0
    /\ (pc = "done" /\ posted # <<>>) =>
          /\ OutcomeCount = 1
          /\ Count(log, "Webhook sent successfully") = 1 <=> Is2xx(net)
          /\ Count(log, "Webhook server responded with an error") = 1
                <=> (net.type = "status" /\ ~Is2xx(net))
          /\ net.type \in {"timeout", "unreachable"}
                => Count(log, "No response received from webhook server") = 1
          /\ net.type = "setup" => Count(log, "Error setting up webhook request") = 1

\* a 304 answer was recorded as the one remote-error outcome
C11_Witness ==
    /\ pc = "done"
    /\ posted # <<>>
    /\ net.type = "status" /\ net.status = 304
    /\ OutcomeCount = 1
    /\ Count(log, "Webhook server responded with an error") = 1

\* an update normalized without a fault
UpdateNormalized == nCalled /\ ~NormalizerFaulted /\ nType = DOCUMENT_UPDATED

\* C12 as stated: for document_updated the value stored in changes under
\* each changed key is the after value of that key, not a {before, after}
\* pair.
C12_Original ==
    UpdateNormalized =>
        \A key \in KeysOf(Get(nEnvelope, "changes")) :
            Get(Get(nEnvelope, "changes"), key) = Get(Get(nEnvelope, "after"), key)

\* C12 amended: for document_updated the value stored in changes under each
\* changed key is the pair {before: before[key], after: after[key]}.
C12_ChangesHoldPairs ==
    UpdateNormalized =>
        \A key \in KeysOf(Get(nEnvelope, "changes")) :
            Get(Get(nEnvelope, "changes"), key) =
                Obj(<< Prop("before", Get(Get(nEnvelope, "before"), key)),
                       Prop("after", Get(Get(nEnvelope, "after"), key)) >>)

\* status went from open to closed and changes holds the pair
C12_Witness ==
    /\ UpdateNormalized
    /\ Get(Get(nEnvelope, "before"), "status") = S_open
    /\ Get(Get(nEnvelope, "after"), "status") = S_closed
    /\ Get(Get(nEnvelope, "changes"), "status") =
          Obj(<< Prop("before", S_open), Prop("after", S_closed) >>)

\* the snapshot the path is resolved from: value when it exists, else oldValue
NamedSnapshot ==
    IF Truthy(Get(nEvent, "value")) THEN Get(nEvent, "value") ELSE Get(nEvent, "oldValue")

\* the path C13 resolves: the snapshot's name without the resource prefix,
\* "unknown" when neither snapshot exists
ResolvedPath ==
    IF ~Truthy(NamedSnapshot) THEN Unknown
    ELSE CleanPath(Get(NamedSnapshot, "name").s)

\* the events C13 determines: neither snapshot exists, or the one the path
\* is resolved from carries its name
PathDetermined ==
    ~Truthy(NamedSnapshot)
    \/ (TypeofObject(NamedSnapshot) /\ Get(NamedSnapshot, "name").t = "string")

\* C13 as stated: documentPath is value.name, else oldValue.name, without
\* the resource prefix up to "documents/", the literal "unknown" when neither
\* snapshot exists, and the document id is the last segment of that path.
C13_PathFromSnapshotName ==
    (nCalled /\ ~NormalizerFaulted /\ PathDetermined) =>
        /\ Get(nEnvelope, "documentPath") = Str(ResolvedPath)
        /\ CleanPath(Get(nEnvelope, "documentPath").s) = Get(nEnvelope, "documentPath").s
        /\ Get(nEnvelope, "documentId") =
              Str(Split(ResolvedPath, "/")[Len(Split(ResolvedPath, "/"))])

TypeTags ==
    { "stringValue", "integerValue", "doubleValue", "booleanValue", "timestampValue",
      "nullValue", "arrayValue", "mapValue" }

\* a type tag remains somewhere in a decoded value
RECURSIVE HasTypeTag(_)
HasTypeTag(v) ==
    IF v.t = "object"
    THEN \E i \in 1..Len(v.e) : v.e[i].k \in TypeTags \/ HasTypeTag(v.e[i].v)
    ELSE IF v.t = "array"
    THEN \E i \in 1..Len(v.a) : HasTypeTag(v.a[i])
    ELSE FALSE

\* recursive decoding: arrays element by element in order, maps entry by
\* entry, an absent body as the empty sequence or mapping
RECURSIVE DecodeDeep(_)
DecodeDeep(value) ==
    IF ~(Truthy(value) /\ TypeofObject(value)) THEN value
    ELSE IF \E tag \in TypeTags \ {"arrayValue", "mapValue"} : Get(value, tag) # Undefined
    THEN DecodeField(value).v
    ELSE IF Get(value, "arrayValue") # Undefined
    THEN LET values == Get(Get(value, "arrayValue"), "values")
         IN  IF values.t = "array"
             THEN Arr([i \in 1..Len(values.a) |-> DecodeDeep(values.a[i])])
             ELSE Arr(<<>>)
    ELSE IF Get(value, "mapValue") # Undefined
    THEN LET fields == Get(Get(value, "mapValue"), "fields")
         IN  IF fields.t = "object"
             THEN Obj([i \in 1..Len(fields.e) |->
                          Prop(fields.e[i].k, DecodeDeep(fields.e[i].v))])
             ELSE Obj(<<>>)
    ELSE DecodeField(value).v

RECURSIVE DecodeDeepInto(_, _)
DecodeDeepInto(result, entries) ==
    IF entries = <<>> THEN result
    ELSE DecodeDeepInto(Put(result, entries[1].k, DecodeDeep(entries[1].v)), Tail(entries))

\* the record of a snapshot in the internal format is its recursive decoding
\* and holds no type tag
DecodedDeep(record, snapshot) ==
    Truthy(Get(snapshot, "_fieldsProto")) =>
        /\ record = DecodeDeepInto(Obj(<< Prop("id", Get(nEnvelope, "documentId")) >>),
                                   Entries(Get(snapshot, "_fieldsProto")))
        /\ ~HasTypeTag(record)

\* C14 as stated: decoding is recursive, an arrayValue gives the sequence of
\* its decoded elements in order and a mapValue the mapping of its decoded
\* entries, so that no type tag remains at any depth of a decoded record; an
\* absent array body gives the empty sequence and an absent map body the
\* empty mapping.
C14_RecursiveDecoding ==
    (nCalled /\ ~NormalizerFaulted) =>
        /\ nType = DOCUMENT_CREATED =>
              DecodedDeep(Get(nEnvelope, "data"), Get(nEvent, "value"))
        /\ nType = DOCUMENT_DELETED =>
              DecodedDeep(Get(nEnvelope, "data"), Get(nEvent, "oldValue"))
        /\ nType = DOCUMENT_UPDATED =>
              /\ DecodedDeep(Get(nEnvelope, "before"), Get(nEvent, "oldValue"))
              /\ DecodedDeep(Get(nEnvelope, "after"), Get(nEvent, "value"))

\* the position of the first observation with this message, 0 when none
FirstAt(observations, msg) ==
    IF Count(observations, msg) = 0 THEN 0
    ELSE CHOOSE i \in 1..Len(observations) :
            /\ observations[i].msg = msg
            /\ \A j \in 1..(i - 1) : observations[j].msg # msg

\* C15: in an enabled invocation the dispatcher is called only after the
\* normalizer has returned, the body posted is the envelope the normalizer
\* returned for the invocation's event, and after a fault in the normalizer
\* the degraded envelope is posted to a non-empty allowed URL, the event not
\* dropped.
C15_NormalizeThenDispatch ==
    /\ dispatched <= normalized
    /\ dispatched = 1 =>
          transformed = transformFirestoreEvent(EventTypeOf(kind), trigEvent)
    /\ posted # <<>> =>
          /\ dispatched = 1
          /\ posted[1].body = transformed
          /\ posted[1].url = env.WEBHOOK_URL
          /\ FirstAt(log, "Error transforming Firestore event")
                < FirstAt(log, "Attempting to send webhook")
    /\ (dispatched = 1 /\ NonSuppressed
          /\ Count(log, "Error transforming Firestore event") = 1) =>
          /\ Len(posted) = 1
          /\ posted[1].body = DegradedEnvelope(EventTypeOf(kind),
                                               Get(transformed, "errorMessage"))

\* the normalizer faulted on an update and the degraded envelope was posted
C15_Witness ==
    /\ kind = "update"
    /\ Count(log, "Error transforming Firestore event") = 1
    /\ Len(posted) = 1
    /\ HasOwn(posted[1].body, "error")
    /\ ~HasOwn(posted[1].body, "documentPath")

\* C16: an enabled invocation records its "webhook processed successfully"
\* observation exactly once, as its last observation, whenever sendWebhook
\* has returned: after a skipped delivery (empty or disallowed URL), after a
\* failed one and after a successful one alike; a disabled or unfinished
\* invocation does not record it; and the adapter's own error observation is
\* never recorded, since neither transformFirestoreEvent nor sendWebhook
\* throws.
C16_ProcessedWheneverSendReturns ==
    /\ Count(log, "Error in webhook handler") = 0
    /\ (pc = "done" /\ dispatched = 1) =>
          /\ Count(log, "webhook processed successfully") = 1
          /\ log[Len(log)] = Observation("info", "webhook processed successfully")
    /\ (pc = "done" /\ dispatched = 1 /\ ~NonSuppressed) =>
          /\ posted = <<>>
          /\ net = NoOutcome
    /\ (pc # "done" \/ dispatched = 0) =>
          Count(log, "webhook processed successfully") = 0

\* the server answered 404 and the invocation still recorded "processed
\* successfully"
C16_Witness ==
    /\ pc = "done"
    /\ net.type = "status" /\ net.status = 404
    /\ Count(log, "Webhook server responded with an error") = 1
    /\ Count(log, "Webhook sent successfully") = 0
    /\ log[Len(log)] = Observation("info", "webhook processed successfully")

====
